---- MODULE Spec2Model ----
(***************************************************************************)
(* Model of the <ar-picker> element (src/ar-picker.js): the scroll state   *)
(* of one Picker, its event handlers, the debounce timer and the           *)
(* animatePhysics callbacks run by requestAnimationFrame.                  *)
(*                                                                         *)
(* Lengths are integers counted in 1/Scale of a CSS pixel, times are       *)
(* integers in milliseconds.  The clock's origin is moved to the current   *)
(* instant after every step of time, so a stored timestamp is <= 0 and     *)
(* "now" is 0.                                                             *)
(***************************************************************************)
EXTENDS Integers, Sequences, FiniteSets, TLC

\* ------------------------------------------------------------------ bounds
\* subdivisions of one pixel
Scale == 4
\* pending scroll accepted from the input events, in pixels
MaxPendingPx == 72
\* requestAnimationFrame callbacks that may be outstanding
MaxRaf == 3
\* select events remembered in selectLog (the most recent ones)
MaxLog == 3
\* input events (key, click, wheel, touch start, touch move) of one behaviour
MaxInputs == 2

\* --------------------------------------------------------------- constants
ITEM_HEIGHT == 36
animationDuration == 180
DEBOUNCE_DELAY == 500
\* height of #container in pixels (the host element is three items high)
ContainerPx == 108

\* a field that holds null is the empty tuple, one that holds v is <<v>>
NULL == << >>
Some(v) == << v >>
Val(f) == f[1]
UNDEFINED == "undefined"

\* one item, in length units
IH == ITEM_HEIGHT * Scale
MaxPending == MaxPendingPx * Scale

Abs(x) == IF x < 0 THEN -x ELSE x
Min(a, b) == IF a <= b THEN a ELSE b
Max(a, b) == IF a >= b THEN a ELSE b
Sign(x) == IF x > 0 THEN 1 ELSE IF x < 0 THEN -1 ELSE 0

\* JavaScript's % : the result takes the sign of the dividend
JsRem(a, b) == IF a >= 0 THEN a % b ELSE -((-a) % b)

\* Math.round of a length, in whole pixels: halves round towards +infinity
MathRound(x) == (2 * x + Scale) \div (2 * Scale)

\* Math.floor(deltaY / ITEM_HEIGHT) * ITEM_HEIGHT of a length
FloorToItem(x) == (x \div IH) * IH

\* ----------------------------------------------------------------- easing
\* bezier(0.785, 0.135, 0.15, 0.86) sampled at <<milliseconds of the nominal
\* duration, pixels of one item>> and interpolated linearly between samples.
EaseKnots ==
    << <<0, 0>>, <<36, 2>>, <<72, 9>>, <<90, 22>>,
       <<108, 29>>, <<144, 34>>, <<animationDuration, ITEM_HEIGHT>> >>

\* normalised time 1 as a numerator: time is counted in 1/TN
TN == animationDuration * IH

KnotT(k) == EaseKnots[k][1] * IH
KnotY(k) == EaseKnots[k][2] * Scale
SegT(k) == EaseKnots[k + 1][1] - EaseKnots[k][1]
SegY(k) == EaseKnots[k + 1][2] - EaseKnots[k][2]
LastSeg == Len(EaseKnots) - 1

\* the segment of the samples that holds the time t, and the progress y
SegmentOfT(t) == CHOOSE j \in 1..LastSeg :
                     /\ KnotT(j) <= t
                     /\ (j = LastSeg \/ t < KnotT(j + 1))
SegmentOfY(y) == CHOOSE j \in 1..LastSeg :
                     /\ KnotY(j) <= y
                     /\ (j = LastSeg \/ y < KnotY(j + 1))

\* easingFunction(t / TN) * ITEM_HEIGHT, in length units
easingFunction ==
    [t \in 0..TN |->
        LET k == SegmentOfT(t)
        IN  KnotY(k) + ((t - KnotT(k)) * SegY(k)) \div (SegT(k) * ITEM_HEIGHT)]

\* inverseEasingFunction(y / IH) * TN: the curve with the coordinates of the
\* control points swapped is the mirror image of the curve, its inverse
inverseEasingFunction ==
    [y \in 0..IH |->
        IF y = IH THEN TN
        ELSE LET k == SegmentOfY(y)
             IN  KnotT(k) + ((y - KnotY(k)) * SegT(k) * ITEM_HEIGHT
                                + SegY(k) - 1) \div SegY(k)]

\* ------------------------------------------------------------------ inputs
\* the lists of items a picker is given; the last holds one value twice
ItemLists == { <<"a", "b">>, <<"a", "b", "c">>, <<"a", "b", "a">> }
Keys == {"ArrowUp", "ArrowDown"}
\* deltaY of wheel events, in length units: whole pixels (mouse wheel) ...
NotchDeltas == { 36 * Scale, 10 * Scale, -(10 * Scale) }
\* ... and fractional pixels (trackpad)
PanDeltas == { 10 * Scale + 1, -(10 * Scale + 1) }
WheelDeltas == NotchDeltas \cup PanDeltas
\* screenY of the touch points
ScreenYs == { 0, 10 * Scale, 46 * Scale }
\* milliseconds between two animation frames
FrameDeltas == { 20, 100 }
TimerIds == 1..2

\* ------------------------------------------------------------------- state
VARIABLES
    items,           \* this.items
    _pendingScroll,  \* this._pendingScroll
    _scrollTop,      \* this._scrollTop
    _lastTimestamp,  \* this._lastTimestamp: a timestamp (<= 0, now is 0)
    _animating,      \* this._animating
    trackedTouch,    \* this.trackedTouch: the screenY of the tracked touch
    externalForce,   \* this.externalForce
    _debounceTimer,  \* this._debounceTimer: the id of a timeout
    _selectedItem,   \* this._selectedItem
    timers,          \* the window's timeouts: id -> ms left, NULL if not set
    rafQueue,        \* animatePhysics callbacks requested for the next frame
    rafRun,          \* callbacks of the current frame that have not run yet
    inputs,          \* input events handled so far
    selectLog,       \* indexes of the last MaxLog "select" events dispatched
    lastCheck,       \* the checkForStability call of the last step, if any
    sincePan,        \* ms since the last trackpad wheel event of a burst
    lastInput        \* the last input event, if a click or a corrected release

vars == << items, _pendingScroll, _scrollTop, _lastTimestamp, _animating,
           trackedTouch, externalForce, _debounceTimer, _selectedItem,
           timers, rafQueue, rafRun, inputs, selectLog, lastCheck, sincePan,
           lastInput >>

NONE == -1

\* container.offsetHeight and wheel.offsetHeight: #wheel holds the items
\* between two whitespace blocks of (50% - 36px / 2) of the container each
containerHeight == ContainerPx * Scale
wheelHeight == (containerHeight - IH) + Len(items) * IH
maxScroll == wheelHeight - containerHeight

\* this.items[i] of a zero-based index
ItemAt(i) == IF i + 1 \in DOMAIN items THEN items[i + 1] ELSE UNDEFINED

\* _getSelectedIndex
SelectedIndex(top) == (2 * top + IH) \div (2 * IH)

Logged(log, i) ==
    IF Len(log) < MaxLog THEN Append(log, i) ELSE Append(Tail(log), i)

\* constructor
Constructed ==
    /\ _pendingScroll = 0
    /\ _scrollTop = 0
    /\ _lastTimestamp = NULL
    /\ _animating = FALSE
    /\ trackedTouch = NULL
    /\ externalForce = FALSE
    /\ _debounceTimer = NULL
    /\ _selectedItem = UNDEFINED
    /\ timers = [i \in TimerIds |-> NULL]
    /\ rafQueue = 0
    /\ rafRun = 0
    /\ inputs = 0
    /\ selectLog = << >>
    /\ lastCheck = NULL
    /\ sincePan = NULL
    /\ lastInput = NULL

Init ==
    /\ items \in ItemLists
    /\ Constructed

\* ------------------------------------------------------- checkForStability
\* checkForStability without the comparison with _selectedItem
checkForStabilityNoCompare(p, top, touch, force, sel) ==
    IF MathRound(p) = 0
    THEN IF JsRem(top, IH) = 0
         THEN [stable |-> TRUE, p |-> p, sel |-> ItemAt(SelectedIndex(top)),
               event |-> SelectedIndex(top)]
         ELSE IF touch # NULL \/ force
         THEN [stable |-> TRUE, p |-> p, sel |-> sel, event |-> NONE]
         ELSE IF 2 * JsRem(top, IH) > IH
         THEN [stable |-> FALSE, p |-> IH - JsRem(top, IH),
               sel |-> sel, event |-> NONE]
         ELSE [stable |-> FALSE, p |-> -JsRem(top, IH),
               sel |-> sel, event |-> NONE]
    ELSE [stable |-> FALSE, p |-> p, sel |-> sel, event |-> NONE]

\* checkForStability without the test for an external force
checkForStabilityNoForce(p, top, touch, force, sel) ==
    IF MathRound(p) = 0
    THEN IF JsRem(top, IH) = 0
         THEN LET selectedIndex == SelectedIndex(top)
              IN  IF sel # ItemAt(selectedIndex)
                  THEN [stable |-> TRUE, p |-> p,
                        sel |-> ItemAt(selectedIndex), event |-> selectedIndex]
                  ELSE [stable |-> TRUE, p |-> p, sel |-> sel, event |-> NONE]
         ELSE IF 2 * JsRem(top, IH) > IH
         THEN [stable |-> FALSE, p |-> IH - JsRem(top, IH),
               sel |-> sel, event |-> NONE]
         ELSE [stable |-> FALSE, p |-> -JsRem(top, IH),
               sel |-> sel, event |-> NONE]
    ELSE [stable |-> FALSE, p |-> p, sel |-> sel, event |-> NONE]

\* the result of checkForStability() run with the given fields:
\* what it returns, _pendingScroll and _selectedItem after it, and the index
\* of the select event it dispatched
checkForStability(p, top, touch, force, sel) ==
    IF MathRound(p) = 0
    THEN IF JsRem(top, IH) = 0
         THEN LET selectedIndex == SelectedIndex(top)
              IN  IF sel # ItemAt(selectedIndex)
                  THEN [stable |-> TRUE, p |-> p,
                        sel |-> ItemAt(selectedIndex), event |-> selectedIndex]
                  ELSE [stable |-> TRUE, p |-> p, sel |-> sel, event |-> NONE]
         ELSE IF touch # NULL \/ force
         THEN [stable |-> TRUE, p |-> p, sel |-> sel, event |-> NONE]
         ELSE IF 2 * JsRem(top, IH) > IH
         THEN [stable |-> FALSE, p |-> IH - JsRem(top, IH),
               sel |-> sel, event |-> NONE]
         ELSE [stable |-> FALSE, p |-> -JsRem(top, IH),
               sel |-> sel, event |-> NONE]
    ELSE [stable |-> FALSE, p |-> p, sel |-> sel, event |-> NONE]

\* a step that runs checkForStability with _pendingScroll = before and gets
\* the result c: the select event it dispatched is logged
Checked(before, c) ==
    /\ lastCheck' = Some([before |-> before, after |-> c.p,
                          stable |-> c.stable, event |-> c.event])
    /\ selectLog' = IF c.event = NONE THEN selectLog
                    ELSE Logged(selectLog, c.event)

\* a step that does not run it
NotChecked ==
    /\ lastCheck' = NULL
    /\ UNCHANGED selectLog

\* the index whose select event the last step dispatched
dispatched == IF lastCheck = NULL THEN NONE ELSE Val(lastCheck).event

\* the handler of the event kind(arg) has run at the position top and has
\* taken _pendingScroll from before to after. The event is remembered, with
\* the position it asks the picker to settle on, when it is a click on item
\* arg or a release for which checkForStability assigned a corrective delta
Handled(kind, arg, top, before, after) ==
    lastInput' =
        IF kind = "click"
        THEN Some([kind |-> "click", target |-> arg * IH])
        ELSE IF /\ kind = "touchend"
                /\ MathRound(before) = 0
                /\ JsRem(top, IH) # 0
                /\ ~externalForce
        THEN Some([kind |-> "touchend", target |-> top + after])
        ELSE NULL

\* this._animating || requestAnimationFrame(this.animatePhysics.bind(this))
Requested(animating, queue) == IF animating THEN queue ELSE queue + 1

\* an event handler runs between two frames; the model takes MaxInputs
\* input events
HandlerMayRun ==
    /\ rafRun = 0
    /\ inputs < MaxInputs
    /\ inputs' = inputs + 1

\* ... and those that leave the pending scroll and the requested callbacks
\* within the model's bounds
Accepted(p) ==
    /\ Abs(p) <= MaxPending
    /\ Requested(_animating, rafQueue) <= MaxRaf

\* ----------------------------------------------------------- stopAnimation
\* stopAnimation without the reset of _pendingScroll
stopAnimationKeepsPending ==
    /\ UNCHANGED _pendingScroll
    /\ _lastTimestamp' = NULL
    /\ _animating' = FALSE

stopAnimation ==
    /\ _pendingScroll' = 0
    /\ _lastTimestamp' = NULL
    /\ _animating' = FALSE

\* ---------------------------------------------------------- animatePhysics
\* the sentinel checks without the one for the upper end
SentinelLowerOnly(p, top) ==
    \/ MathRound(p) = 0
    \/ top = 0 /\ p < 0

\* the sentinel checks
Sentinel(p, top) ==
    \/ MathRound(p) = 0
    \/ top = 0 /\ p < 0
    \/ top + containerHeight >= wheelHeight /\ p > 0

\* an offset that takes the remainder of the position for either direction
RawScrollOffsetDirect(p, top) ==
    IF p > 0 THEN JsRem(IH + top, IH)
             ELSE JsRem(IH - top, IH)

\* the offset from the previous stable position, before the defense
RawScrollOffset(p, top) ==
    IF p > 0 THEN JsRem(IH + top, IH)
             ELSE JsRem(IH - JsRem(top, IH), IH)

\* ... and after it
ScrollOffset(p, top) ==
    IF RawScrollOffset(p, top) < 0 THEN 0 ELSE RawScrollOffset(p, top)

\* dx of a frame that runs delta ms after the last one.  With
\* shrunkenAnimationTime = animationDuration * IH / Max(IH, |p|), the time
\* t / shrunkenAnimationTime is the inverse easing of the offset and
\* delta / shrunkenAnimationTime is delta * Max(IH, |p|) / TN.
FrameDx(p, top, delta) ==
    LET t  == inverseEasingFunction[ScrollOffset(p, top)]
        dx == easingFunction[Min(TN, t + delta * Max(IH, Abs(p)))]
                - easingFunction[Min(TN, t)]
    IN  Sign(p) * Min(Abs(p), dx)

\* a write of _scrollTop that stops short of the upper list end
ClampTopInside(top) == Max(0, Min(maxScroll - 1, top))

\* the write of _scrollTop
ClampTop(top) == Max(0, Min(wheelHeight, top))

\* a priming branch that does not mark the engine as animating
PrimeNotAnimating ==
    /\ _lastTimestamp' = Some(0)
    /\ rafQueue' = rafQueue + 1
    /\ NotChecked
    /\ UNCHANGED << _pendingScroll, _scrollTop, _selectedItem, _animating >>

\* the branch of animatePhysics for an unset _lastTimestamp: setup timestamp
\* and wait until next frame
Prime ==
    /\ _lastTimestamp' = Some(0)
    /\ _animating' = TRUE
    /\ rafQueue' = rafQueue + 1
    /\ NotChecked
    /\ UNCHANGED << _pendingScroll, _scrollTop, _selectedItem >>

\* one animatePhysics callback of the current frame
AnimatePhysics ==
    /\ rafRun > 0
    /\ rafRun' = rafRun - 1
    /\ UNCHANGED << items, trackedTouch, externalForce, _debounceTimer, timers,
                    inputs, sincePan, lastInput >>
    /\ IF _lastTimestamp = NULL
       THEN Prime
       ELSE IF Sentinel(_pendingScroll, _scrollTop)
       THEN /\ stopAnimation
            /\ NotChecked
            /\ UNCHANGED << _scrollTop, _selectedItem, rafQueue >>
       ELSE LET delta == 0 - Val(_lastTimestamp)
                dx    == FrameDx(_pendingScroll, _scrollTop, delta)
                top   == ClampTop(_scrollTop + dx)
                c     == checkForStability(_pendingScroll - dx, top,
                             trackedTouch, externalForce, _selectedItem)
            IN  /\ _scrollTop' = top
                /\ _selectedItem' = c.sel
                /\ Checked(_pendingScroll - dx, c)
                /\ IF c.stable
                   THEN /\ stopAnimation
                        /\ UNCHANGED rafQueue
                   ELSE /\ _pendingScroll' = c.p
                        /\ _lastTimestamp' = Some(0)
                        /\ rafQueue' = rafQueue + 1
                        /\ UNCHANGED _animating

\* ------------------------------------------------------------------- time
TimersLeft == { Val(timers[i]) : i \in { j \in TimerIds : timers[j] # NULL } }

\* dt ms pass, or as many as are left until the next timeout expires, and
\* the browser starts the next frame: it will run the callbacks requested
Tick(dt) ==
    LET step == IF \E l \in TimersLeft : l < dt
                THEN CHOOSE l \in TimersLeft : \A m \in TimersLeft : l <= m
                ELSE dt
    IN  /\ rafRun = 0
        /\ 0 \notin TimersLeft
        /\ rafQueue > 0 \/ TimersLeft # {}
        /\ timers' = [i \in TimerIds |->
                        IF timers[i] = NULL THEN NULL
                        ELSE Some(Val(timers[i]) - step)]
        /\ _lastTimestamp' = IF _lastTimestamp = NULL THEN NULL
                             ELSE Some(Val(_lastTimestamp) - step)
        /\ rafRun' = rafQueue
        /\ rafQueue' = 0
        /\ sincePan' = IF sincePan = NULL THEN NULL
                       ELSE Some(Val(sincePan) + step)
        /\ lastCheck' = NULL
        /\ UNCHANGED << items, _pendingScroll, _scrollTop, _animating,
                        trackedTouch, externalForce, _debounceTimer,
                        _selectedItem, inputs, selectLog, lastInput >>

\* ---------------------------------------------------------------- handlers
_onKeyDown(key) ==
    LET p == IF key = "ArrowUp" THEN _pendingScroll - IH
                                ELSE _pendingScroll + IH
    IN  /\ HandlerMayRun
        /\ Accepted(p)
        /\ _pendingScroll' = p
        /\ rafQueue' = Requested(_animating, rafQueue)
        /\ lastCheck' = NULL
        /\ Handled(key, 0, _scrollTop, _pendingScroll, p)
        /\ UNCHANGED << items, _scrollTop, _lastTimestamp, _animating,
                        trackedTouch, externalForce, _debounceTimer,
                        _selectedItem, timers, rafRun, selectLog, sincePan >>

\* a click on the item of (zero-based) index i: its offsetTop is that of the
\* first item, whitespaceElement.offsetTop + offsetHeight, plus i items
_onItemClick(i) ==
    LET p == _pendingScroll + (i * IH - _scrollTop)
    IN  /\ HandlerMayRun
        /\ Accepted(p)
        /\ _pendingScroll' = p
        /\ rafQueue' = Requested(_animating, rafQueue)
        /\ lastCheck' = NULL
        /\ Handled("click", i, _scrollTop, _pendingScroll, p)
        /\ UNCHANGED << items, _scrollTop, _lastTimestamp, _animating,
                        trackedTouch, externalForce, _debounceTimer,
                        _selectedItem, timers, rafRun, selectLog, sincePan >>

\* the first finger touches the container at screenY = y
_onTouchStart(y) ==
    /\ HandlerMayRun
    /\ trackedTouch = NULL
    /\ trackedTouch' = Some(y)
    /\ lastCheck' = NULL
    /\ Handled("touchstart", y, _scrollTop, _pendingScroll, _pendingScroll)
    /\ UNCHANGED << items, _pendingScroll, _scrollTop, _lastTimestamp,
                    _animating, externalForce, _debounceTimer, _selectedItem,
                    timers, rafQueue, rafRun, selectLog, sincePan >>

\* the tracked finger is lifted
_onTouchEnd ==
    LET c == checkForStability(_pendingScroll, _scrollTop, NULL,
                               externalForce, _selectedItem)
    IN  /\ rafRun = 0
        /\ trackedTouch # NULL
        /\ c.stable \/ Requested(_animating, rafQueue) <= MaxRaf
        /\ trackedTouch' = NULL
        /\ _pendingScroll' = c.p
        /\ _selectedItem' = c.sel
        /\ Checked(_pendingScroll, c)
        /\ Handled("touchend", Val(trackedTouch), _scrollTop, _pendingScroll,
                   c.p)
        /\ rafQueue' = IF c.stable THEN rafQueue
                       ELSE Requested(_animating, rafQueue)
        /\ UNCHANGED << items, _scrollTop, _lastTimestamp, _animating,
                        externalForce, _debounceTimer, timers, rafRun, inputs,
                        sincePan >>

\* the tracked finger moves to screenY = y
_onTouchMove(y) ==
    LET p == _pendingScroll + (Val(trackedTouch) - y)
    IN  /\ HandlerMayRun
        /\ trackedTouch # NULL
        /\ Accepted(p)
        /\ _pendingScroll' = p
        /\ rafQueue' = Requested(_animating, rafQueue)
        /\ trackedTouch' = Some(y)
        /\ lastCheck' = NULL
        /\ Handled("touchmove", y, _scrollTop, _pendingScroll, p)
        /\ UNCHANGED << items, _scrollTop, _lastTimestamp, _animating,
                        externalForce, _debounceTimer, _selectedItem,
                        timers, rafRun, selectLog, sincePan >>

\* a clearTimeout that leaves the timeout pending
ClearTimeoutNot(ts, id) == ts

\* clearTimeout(id)
ClearTimeout(ts, id) == [ts EXCEPT ![id] = NULL]

\* setTimeout(callback, ms): the id of the new timeout and the timeouts
FreeTimerId(ts) == CHOOSE i \in TimerIds :
                       /\ ts[i] = NULL
                       /\ \A j \in TimerIds : ts[j] = NULL => i <= j
SetTimeout(ts, ms) == [ts EXCEPT ![FreeTimerId(ts)] = Some(ms)]

\* a wheel event with deltaY = d
_onWheelHandler(d) ==
    LET smoothScroll == d % Scale = 0
    IN  /\ HandlerMayRun
        /\ IF ~smoothScroll
           THEN \* assuming trackpad scroll
                LET cleared == IF _debounceTimer # NULL
                               THEN ClearTimeout(timers, Val(_debounceTimer))
                               ELSE timers
                IN  /\ Accepted(_pendingScroll + d)
                    /\ \E i \in TimerIds : cleared[i] = NULL
                    /\ externalForce' = TRUE
                    /\ timers' = SetTimeout(cleared, DEBOUNCE_DELAY)
                    /\ _debounceTimer' = Some(FreeTimerId(cleared))
                    /\ _pendingScroll' = _pendingScroll + d
                    /\ sincePan' = Some(0)
                    /\ Handled("wheel", d, _scrollTop, _pendingScroll,
                               _pendingScroll + d)
           ELSE \* assuming mousewheel scroll
                /\ Accepted(_pendingScroll + FloorToItem(d))
                /\ _pendingScroll' = _pendingScroll + FloorToItem(d)
                /\ Handled("wheel", d, _scrollTop, _pendingScroll,
                           _pendingScroll + FloorToItem(d))
                /\ UNCHANGED << externalForce, timers, _debounceTimer,
                                sincePan >>
        /\ rafQueue' = Requested(_animating, rafQueue)
        /\ lastCheck' = NULL
        /\ UNCHANGED << items, _scrollTop, _lastTimestamp, _animating,
                        trackedTouch, _selectedItem, rafRun, selectLog >>

\* the callback of the timeout id, set by _onWheelHandler, when it expires
DebounceExpired(id) ==
    LET c == checkForStability(_pendingScroll, _scrollTop, trackedTouch,
                               FALSE, _selectedItem)
    IN  /\ rafRun = 0
        /\ timers[id] = Some(0)
        /\ timers' = [timers EXCEPT ![id] = NULL]
        /\ externalForce' = FALSE
        /\ _debounceTimer' = NULL
        /\ _pendingScroll' = c.p
        /\ _selectedItem' = c.sel
        /\ Checked(_pendingScroll, c)
        /\ sincePan' = NULL
        /\ rafQueue' = IF c.stable THEN rafQueue
                       ELSE Requested(_animating, rafQueue)
        /\ UNCHANGED << items, _scrollTop, _lastTimestamp, _animating,
                        trackedTouch, rafRun, inputs, lastInput >>

Next ==
    \/ \E key \in Keys : _onKeyDown(key)
    \/ \E i \in 0..(Len(items) - 1) : _onItemClick(i)
    \/ \E y \in ScreenYs : _onTouchStart(y)
    \/ _onTouchEnd
    \/ \E y \in ScreenYs : _onTouchMove(y)
    \/ \E d \in WheelDeltas : _onWheelHandler(d)
    \/ \E id \in TimerIds : DebounceExpired(id)
    \/ \E dt \in FrameDeltas : Tick(dt)
    \/ AnimatePhysics

Spec == Init /\ [][Next]_vars

\* the browser keeps running frames and the callbacks requested for them
Frames == WF_vars(\E dt \in FrameDeltas : Tick(dt)) /\ WF_vars(AnimatePhysics)

\* a picker that gets key events only
NextKeys ==
    \/ \E key \in Keys : _onKeyDown(key)
    \/ \E dt \in FrameDeltas : Tick(dt)
    \/ AnimatePhysics

SpecKeys == Init /\ [][NextKeys]_vars /\ Frames

\* a picker of five items that gets ArrowDown key events only
FiveItems == <<"a", "b", "c", "d", "e">>

InitFive ==
    /\ items = FiveItems
    /\ Constructed

NextDown ==
    \/ _onKeyDown("ArrowDown")
    \/ \E dt \in FrameDeltas : Tick(dt)
    \/ AnimatePhysics

SpecDown == InitFive /\ [][NextDown]_vars /\ Frames

\* a picker that gets touch events only
NextTouch ==
    \/ \E y \in ScreenYs : _onTouchStart(y)
    \/ _onTouchEnd
    \/ \E y \in ScreenYs : _onTouchMove(y)
    \/ \E dt \in FrameDeltas : Tick(dt)
    \/ AnimatePhysics

SpecTouch == Init /\ [][NextTouch]_vars /\ Frames

\* a picker that gets click and key events only
NextClick ==
    \/ \E i \in 0..(Len(items) - 1) : _onItemClick(i)
    \/ \E key \in Keys : _onKeyDown(key)
    \/ \E dt \in FrameDeltas : Tick(dt)
    \/ AnimatePhysics

SpecClick == Init /\ [][NextClick]_vars /\ Frames

\* the browser runs the callback of a timeout that has expired
Timeouts == WF_vars(\E id \in TimerIds : DebounceExpired(id))

\* a picker that gets trackpad wheel events only
NextPan ==
    \/ \E d \in PanDeltas : _onWheelHandler(d)
    \/ \E id \in TimerIds : DebounceExpired(id)
    \/ \E dt \in FrameDeltas : Tick(dt)
    \/ AnimatePhysics

SpecPan == Init /\ [][NextPan]_vars /\ Frames /\ Timeouts

\* a picker that gets wheel events only, of a mouse wheel or of a trackpad
NextWheel ==
    \/ \E d \in WheelDeltas : _onWheelHandler(d)
    \/ \E id \in TimerIds : DebounceExpired(id)
    \/ \E dt \in FrameDeltas : Tick(dt)
    \/ AnimatePhysics

SpecWheel == Init /\ [][NextWheel]_vars /\ Frames /\ Timeouts

\* ================================================================== claims
Aligned == JsRem(_scrollTop, IH) = 0
Forced == trackedTouch # NULL \/ externalForce
\* no animatePhysics callback is outstanding and nothing is pending
Halted == rafQueue = 0 /\ rafRun = 0 /\ _pendingScroll = 0

\* C1: in every reachable state the scroll position is within
\* [0, maxScroll], with maxScroll = wheel.offsetHeight - container.offsetHeight.
C1_PositionInRange == 0 <= _scrollTop /\ _scrollTop <= maxScroll

\* a frame has moved the position onto the upper end, between two items on
\* the way
C1_Witness ==
    /\ _scrollTop = maxScroll
    /\ lastCheck # NULL
    /\ inputs > 0

\* C2: at most one animatePhysics callback is outstanding at any time.
C2_OneFrameOutstanding == rafQueue + rafRun <= 1

\* the select event announced last before the last step
LastAnnouncedBefore ==
    LET n == IF dispatched = NONE THEN Len(selectLog) ELSE Len(selectLog) - 1
    IN  IF n >= 1 THEN selectLog[n] ELSE NONE

\* C3: a step that runs the stability check dispatches a select event if and
\* only if the pending scroll rounds to 0, no touch is tracked and
\* externalForce is false, the position is a multiple of the item height, and
\* the index round(position / itemHeight) differs from the index announced
\* last.
C3_SelectIff ==
    lastCheck # NULL =>
        ( dispatched # NONE
          <=> /\ MathRound(Val(lastCheck).before) = 0
              /\ ~Forced
              /\ Aligned
              /\ SelectedIndex(_scrollTop) # LastAnnouncedBefore )

\* C4: with key events only and frames that keep running, the engine
\* eventually halts (no frame scheduled, nothing pending) for good at a
\* multiple of the item height.
C4_EventuallyHaltsAligned == <>[](Halted /\ Aligned)

\* C5: with five items, two ArrowDown key events from the idle engine at
\* position 0 end at position 72 with exactly two select events, for index 1
\* and then for index 2.
C5_TwoDownTwoSelects ==
    (inputs = 2 /\ Halted) =>
        /\ _scrollTop = 2 * IH
        /\ SelectedIndex(_scrollTop) = 2
        /\ selectLog = <<1, 2>>

\* C6: whenever the engine has halted at a multiple of the item height with
\* no external force, after some input, the item announced last is the item
\* at round(position / itemHeight).
C6_HaltAnnounces ==
    (Halted /\ ~Forced /\ Aligned /\ inputs > 0) =>
        _selectedItem = ItemAt(SelectedIndex(_scrollTop))

\* C7: after a select event for an index, no further select event for that
\* index is dispatched until one for another index has been dispatched.
C7_NoRepeatedSelect ==
    \A k \in 1..(Len(selectLog) - 1) : selectLog[k] # selectLog[k + 1]

\* a stability check has run again at the position announced last, and has
\* dispatched nothing
C7_Witness ==
    /\ lastCheck # NULL
    /\ Val(lastCheck).stable
    /\ dispatched = NONE
    /\ Aligned
    /\ selectLog # << >>
    /\ selectLog[Len(selectLog)] = SelectedIndex(_scrollTop)

\* a frame that is not the priming one starts at an end of the list with a
\* pending scroll that leads out of it
AtEndFrame ==
    /\ rafRun > 0
    /\ _lastTimestamp # NULL
    /\ \/ _scrollTop = 0 /\ _pendingScroll < 0
       \/ _scrollTop + containerHeight >= wheelHeight /\ _pendingScroll > 0

\* C8: such a frame halts the animation: it leaves the position unchanged,
\* resets the pending scroll to 0 and requests no further frame.
C8_EndFrameHalts ==
    [][ AtEndFrame =>
            /\ _scrollTop' = _scrollTop
            /\ _pendingScroll' = 0
            /\ rafQueue' = rafQueue
            /\ _animating' = FALSE
            /\ _lastTimestamp' = NULL ]_vars

\* such a frame at the upper end, with two items pending
C8_Witness ==
    /\ AtEndFrame
    /\ _scrollTop = maxScroll
    /\ _pendingScroll >= IH

\* C9: a stability check that runs while a touch is tracked or externalForce
\* is set assigns no pending scroll, and reports stable when the pending
\* scroll rounds to 0 between two items.
C9_ForcedCheckKeeps ==
    (lastCheck # NULL /\ Forced) =>
        /\ Val(lastCheck).after = Val(lastCheck).before
        /\ (MathRound(Val(lastCheck).before) = 0 /\ ~Aligned)
               => Val(lastCheck).stable

\* a check under an external force, between two items, nothing pending
C9_Witness ==
    /\ lastCheck # NULL
    /\ Forced
    /\ MathRound(Val(lastCheck).before) = 0
    /\ ~Aligned

PendingTimers == { i \in TimerIds : timers[i] # NULL }

\* C10: at most one debounce timeout is pending; externalForce is set exactly
\* while it is, and it expires DEBOUNCE_DELAY ms after the last trackpad wheel
\* event.
C10_OneDebounceTimer ==
    /\ Cardinality(PendingTimers) <= 1
    /\ externalForce <=> PendingTimers # {}
    /\ PendingTimers = {} => _debounceTimer = NULL
    /\ \A i \in PendingTimers :
          /\ _debounceTimer = Some(i)
          /\ sincePan # NULL
          /\ Val(timers[i]) + Val(sincePan) = DEBOUNCE_DELAY

\* a second trackpad wheel event has just arrived, after frames have run on
\* the first one
C10_Witness ==
    /\ inputs = 2
    /\ sincePan = Some(0)
    /\ _scrollTop > 0
    /\ Abs(_scrollTop + _pendingScroll) = 2 * (10 * Scale + 1)

\* a step that runs an animatePhysics callback past its priming branch
NonPrimingFrame ==
    /\ rafRun > 0
    /\ rafRun' = rafRun - 1
    /\ _lastTimestamp # NULL

\* the value _pendingScroll had in a frame that halted, before stopAnimation
\* zeroed it
PendingAtHalt == IF lastCheck' # NULL THEN Val(lastCheck').before
                 ELSE _pendingScroll

\* C11: every non-priming frame makes |_pendingScroll| strictly smaller, and
\* the animation halts only in a frame where _pendingScroll has reached
\* exactly 0.
C11_PendingShrinks ==
    [][ NonPrimingFrame =>
          /\ _pendingScroll # 0 => Abs(_pendingScroll') < Abs(_pendingScroll)
          /\ _lastTimestamp' = NULL => PendingAtHalt = 0 ]_vars

\* the engine has halted for good: no callback outstanding, nothing pending,
\* no finger down and no debounce timer left to run
Idle == Halted /\ ~Forced /\ PendingTimers = {}

\* C12: after a release between two items, for which checkForStability
\* assigned the corrective delta to the nearer boundary, and no other input,
\* the engine halts exactly on that boundary and has announced its item.
C12_ReleaseSnaps ==
    (lastInput # NULL /\ Val(lastInput).kind = "touchend" /\ Idle) =>
        /\ _scrollTop = Val(lastInput).target
        /\ _selectedItem = ItemAt(SelectedIndex(Val(lastInput).target))

\* C13: while a finger is down, a frame that moves applies the whole
\* _pendingScroll to the position, clamped to the list ends, and leaves
\* _pendingScroll = 0.
C13_DragTracksFinger ==
    [][ ( /\ NonPrimingFrame
          /\ trackedTouch # NULL
          /\ ~Sentinel(_pendingScroll, _scrollTop) ) =>
          /\ _scrollTop' = ClampTop(_scrollTop + _pendingScroll)
          /\ _pendingScroll' = 0 ]_vars

\* C14: after the last trackpad wheel event the engine eventually stays
\* without external force, halted, with nothing pending, on a multiple of
\* ITEM_HEIGHT.
C14_PanSettles == <>[](~externalForce /\ Halted /\ Aligned)

\* C15: whenever no callback is outstanding, nothing is pending, no finger
\* is down and externalForce is false, the position is a multiple of
\* ITEM_HEIGHT.
C15_IdleAligned == (Halted /\ ~Forced) => Aligned

\* C16: after a click on an item and no other input, the engine halts with
\* the index resolved from the position equal to the index of the clicked
\* item.
C16_ClickLandsOnItem ==
    (lastInput # NULL /\ Val(lastInput).kind = "click" /\ Idle) =>
        SelectedIndex(_scrollTop) * IH = Val(lastInput).target

\* C17: a non-priming frame that does not halt and whose stability check
\* assigns no corrective delta conserves _scrollTop + _pendingScroll, also
\* when it moves the position onto a list end.
C17_FrameConserves ==
    [][ ( /\ NonPrimingFrame
          /\ _lastTimestamp' # NULL
          /\ lastCheck' # NULL
          /\ Val(lastCheck').after = Val(lastCheck').before ) =>
          _scrollTop' + _pendingScroll' = _scrollTop + _pendingScroll ]_vars

\* a frame has moved the position onto the upper list end with a delta left
\* over, and has requested the next frame
C17_Witness ==
    /\ lastCheck # NULL
    /\ ~Val(lastCheck).stable
    /\ Val(lastCheck).after = Val(lastCheck).before
    /\ _lastTimestamp = Some(0)
    /\ _scrollTop = maxScroll
    /\ _pendingScroll > 0

\* C18: a callback that finds _lastTimestamp unset records the timestamp,
\* marks the engine as animating and requests exactly one more frame; it
\* leaves the position, _pendingScroll and _selectedItem unchanged and
\* dispatches no select event.
C18_PrimingFrame ==
    [][ (rafRun > 0 /\ rafRun' = rafRun - 1 /\ _lastTimestamp = NULL) =>
          /\ _lastTimestamp' = Some(0)
          /\ _animating'
          /\ rafQueue' = rafQueue + 1
          /\ lastCheck' = NULL
          /\ UNCHANGED << _scrollTop, _pendingScroll, _selectedItem,
                          selectLog >> ]_vars

\* the priming frame of a restart: the engine had halted on an item and
\* announced it, a key press has come, and the first frame has run
C18_Witness ==
    /\ selectLog # << >>
    /\ inputs = 2
    /\ Aligned
    /\ Abs(_pendingScroll) = IH
    /\ _lastTimestamp = Some(0)
    /\ _animating
    /\ lastCheck = NULL
    /\ rafQueue = 1
    /\ rafRun = 0

\* C19: a mouse wheel event adds a whole multiple of ITEM_HEIGHT to
\* _pendingScroll, and the opposite of what the event with the opposite
\* deltaY adds.
C19_WheelSymmetric ==
    [][ \A d \in NotchDeltas :
          _onWheelHandler(d) =>
             /\ JsRem(_pendingScroll' - _pendingScroll, IH) = 0
             /\ _pendingScroll' - _pendingScroll = -FloorToItem(-d) ]_vars

\* a callback is about to run past the priming branch and the sentinel checks
MovingFrame ==
    /\ rafRun > 0
    /\ _lastTimestamp # NULL
    /\ ~Sentinel(_pendingScroll, _scrollTop)

\* C20: in every non-priming frame that passes the sentinel checks the
\* offset from the previous stable position is within [0, ITEM_HEIGHT), so
\* the "offset should be non-negative" branch is never taken.
C20_OffsetInRange ==
    MovingFrame =>
        /\ 0 <= RawScrollOffset(_pendingScroll, _scrollTop)
        /\ RawScrollOffset(_pendingScroll, _scrollTop) < IH

\* a frame about to move upwards from a position between two items
C20_Witness ==
    /\ MovingFrame
    /\ _pendingScroll < 0
    /\ ~Aligned

====
